---- MODULE Spec2Model ----
(***************************************************************************)
(* A model of libqthexed.py: the DataView wrapper over raw data / a mapped *)
(* file, and the QHexEditor widget's window, frame and selection logic.    *)
(*                                                                         *)
(* Python exceptions are modelled as the value of `err` after an           *)
(* operation ("ok" when none was raised); the fields an operation assigned *)
(* before it raised keep their new values, as in the code.                 *)
(* Qt is the environment: the geometry a resize reports, the indexes of a  *)
(* selection change and the view's current index are inputs.               *)
(*                                                                         *)
(* Three specifications explore the same operators: Spec the window        *)
(* (navigation, resize, open), SpecData the data source (open, item reads  *)
(* and writes, close), SpecSel the selection handling.  sel_changed writes *)
(* only item backgrounds and the status offset, which no window or source  *)
(* operation reads.                                                        *)
(***************************************************************************)
EXTENDS Integers, Sequences, FiniteSets, TLC

VARIABLES
    he,      \* the QHexEditor object: its fields, its DataView (_data), its item
             \* model (dm), header labels, scroll bar and status labels
    files,   \* the files on disk: name -> bytes
    current, \* the view's current index (row, column); (-1, -1) when invalid
    lastOp,  \* the last operation run on the editor, with its arguments and locals
    err      \* the exception that operation raised, "ok" when none

vars == <<he, files, current, lastOp, err>>

\* ------------------------------------------------------------------ bounds

\* Longest in-memory buffer handed to open().
MaxLen == 3
\* Largest column count the widget is constructed with.
MaxColumns == 2
\* Largest net pixel height of the hex view (height - header height - 6).
MaxHeight == 4
\* Largest absolute argument of jump_rows / jump_pages.
MaxDelta == 1
\* Longest list of indexes in one selection change (selected or deselected).
MaxSel == 1
\* Largest page (rows * columns) the selection exploration resizes the window to.
MaxSelPage == 2

\* The byte values written through __setitem__: LF and 'A'.
ByteVals == {10, 65}

\* The files on disk: a five-byte file, an empty file; any other name is missing.
InitFiles == [x \in {"a.bin", "empty.bin"} |->
                IF x = "a.bin" THEN <<255, 0, 65, 7, 66>> ELSE <<>>]
FileNames == {"a.bin", "empty.bin", "missing.bin"}

\* ----------------------------------------------------------------- helpers

Min(a, b) == IF a < b THEN a ELSE b
Max(a, b) == IF a > b THEN a ELSE b

\* Python's s[lo:hi] for 0 <= lo, 0 <= hi: clamped to the sequence, never raises.
Slice(s, lo, hi) ==
    LET e == Min(hi, Len(s))
    IN  IF e <= lo THEN <<>> ELSE [i \in 1..(e - lo) |-> s[lo + i]]

HexDigits == <<"0", "1", "2", "3", "4", "5", "6", "7",
               "8", "9", "A", "B", "C", "D", "E", "F">>

RECURSIVE HexStr(_)
\* '%X' % n for n >= 0, as a sequence of digit characters.
HexStr(n) ==
    IF n < 16 THEN <<HexDigits[n + 1]>>
    ELSE HexStr(n \div 16) \o <<HexDigits[(n % 16) + 1]>>

RECURSIVE ZeroPad(_, _)
ZeroPad(s, width) == IF Len(s) >= width THEN s ELSE ZeroPad(<<"0">> \o s, width)

\* '%0<width>X' % n; a negative n prints a minus sign first (Python).
FmtX(n, width) ==
    IF n >= 0 THEN ZeroPad(HexStr(n), width)
    ELSE <<"-">> \o ZeroPad(HexStr(0 - n), width - 1)

DecDigits == <<"0", "1", "2", "3", "4", "5", "6", "7", "8", "9">>

RECURSIVE DecStr(_)
\* str(n) for n >= 0.
DecStr(n) ==
    IF n < 10 THEN <<DecDigits[n + 1]>>
    ELSE DecStr(n \div 10) \o <<DecDigits[(n % 10) + 1]>>

\* Python's cp437 codec: the Unicode code point of each byte value 0..255.
Cp437 == <<
      0, 1, 2, 3, 4, 5, 6, 7, 8, 9, 10, 11, 12, 13, 14, 15,
      16, 17, 18, 19, 20, 21, 22, 23, 24, 25, 26, 27, 28, 29, 30, 31,
      32, 33, 34, 35, 36, 37, 38, 39, 40, 41, 42, 43, 44, 45, 46, 47,
      48, 49, 50, 51, 52, 53, 54, 55, 56, 57, 58, 59, 60, 61, 62, 63,
      64, 65, 66, 67, 68, 69, 70, 71, 72, 73, 74, 75, 76, 77, 78, 79,
      80, 81, 82, 83, 84, 85, 86, 87, 88, 89, 90, 91, 92, 93, 94, 95,
      96, 97, 98, 99, 100, 101, 102, 103, 104, 105, 106, 107, 108, 109, 110, 111,
      112, 113, 114, 115, 116, 117, 118, 119, 120, 121, 122, 123, 124, 125, 126, 127,
      199, 252, 233, 226, 228, 224, 229, 231, 234, 235, 232, 239, 238, 236, 196, 197,
      201, 230, 198, 244, 246, 242, 251, 249, 255, 214, 220, 162, 163, 165, 8359, 402,
      225, 237, 243, 250, 241, 209, 170, 186, 191, 8976, 172, 189, 188, 161, 171, 187,
      9617, 9618, 9619, 9474, 9508, 9569, 9570, 9558, 9557, 9571, 9553, 9559, 9565, 9564, 9563, 9488,
      9492, 9524, 9516, 9500, 9472, 9532, 9566, 9567, 9562, 9556, 9577, 9574, 9568, 9552, 9580, 9575,
      9576, 9572, 9573, 9561, 9560, 9554, 9555, 9579, 9578, 9496, 9484, 9608, 9604, 9612, 9616, 9600,
      945, 223, 915, 960, 931, 963, 181, 964, 934, 920, 937, 948, 8734, 966, 949, 8745,
      8801, 177, 8805, 8804, 8992, 8993, 247, 8776, 176, 8729, 183, 8730, 8319, 178, 9632, 160 >>

NONPRINTABLE == {0, 7, 8, 9, 10, 13}

\* ---------------------------------------------------------------- DataView

\* A Python value passed as `data`: None, bytes or bytearray.
NoneData == [type |-> "NoneType", val |-> <<>>]

\* Python truth value of `data` / `filename`: None and the empty value are false.
TruthyData(d) == d.type # "NoneType" /\ Len(d.val) > 0
TruthyName(f) == f # "None" /\ f # ""

\* editor._data before the first open().
NoneView == [none |-> TRUE, rawdata |-> NoneData, filename |-> "None",
             readonly |-> TRUE, _data |-> "None", fh |-> "unset", mm |-> "unset"]

\* DataView.__init__: the arguments are rejected when both are false.
DataView_init_raises(d, filename) == ~(TruthyData(d) \/ TruthyName(filename))

\* DataView.__init__: rawdata is assigned before the local `data` is rebound to
\* a bytearray copy, so the copy is dropped and rawdata keeps the caller's object.
DataView_init(d, filename, readonly) ==
    [none |-> FALSE, rawdata |-> d, filename |-> filename, readonly |-> readonly,
     _data |-> "None", fh |-> "unset", mm |-> "unset"]

\* The mode string the data property builds.
OpenMode(readonly) == IF readonly THEN <<"r", "+">> ELSE <<"r", "+", "w">>

\* Python's open(): a mode must hold exactly one of c, r, w, a.
ValidMode(mode) ==
    Cardinality({i \in 1..Len(mode) : mode[i] \in {"c", "r", "w", "a"}}) = 1

\* The `data` property: returns the cached buffer, or maps the file / takes
\* rawdata on first use.  Result: the view after the call and the error raised.
DataView_data(dv, fs) ==
    IF dv._data # "None" THEN [dv |-> dv, err |-> "ok"]
    ELSE IF TruthyName(dv.filename) THEN
        IF ~ValidMode(OpenMode(dv.readonly))
        THEN [dv |-> dv, err |-> "ValueError: invalid mode"]
        ELSE IF dv.filename \notin DOMAIN fs
        THEN [dv |-> dv, err |-> "FileNotFoundError"]
        ELSE IF Len(fs[dv.filename]) = 0
        THEN [dv |-> [dv EXCEPT !.fh = "open"],
              err |-> "ValueError: cannot mmap an empty file"]
        ELSE [dv |-> [dv EXCEPT !.fh = "open", !.mm = "open", !._data = "mm"],
              err |-> "ok"]
    ELSE [dv |-> [dv EXCEPT !._data = "raw"], err |-> "ok"]

\* The bytes behind a view whose buffer is set.
Content(dv, fs) ==
    IF dv._data = "mm" THEN fs[dv.filename] ELSE dv.rawdata.val

\* DataView.close
DataView_close(dv) ==
    IF dv._data # "None" THEN
        IF dv.mm = "unset"
        THEN [dv |-> dv, err |-> "AttributeError: mm"]
        ELSE [dv |-> [dv EXCEPT !.mm = "closed", !.fh = "closed", !._data = "None"],
              err |-> "ok"]
    ELSE [dv |-> dv, err |-> "ok"]

\* SetitemRefused without the readonly test.
SetitemRefused_Never(dv) == FALSE

\* The readonly test of DataView.__setitem__.
SetitemRefused(dv) == dv.readonly

\* Python index normalisation: a negative index counts from the end.
NormIndex(i, n) == IF i < 0 THEN i + n ELSE i

\* DataView.__setitem__ with an integer index.
DataView_setitem(dv, fs, item, value) ==
    IF SetitemRefused(dv)
    THEN [dv |-> dv, files |-> fs, err |-> "ValueError: Readonly flag set!"]
    ELSE
      LET r == DataView_data(dv, fs)
          n == Len(Content(r.dv, fs))
          k == NormIndex(item, n)
      IN  IF r.err # "ok" THEN [dv |-> r.dv, files |-> fs, err |-> r.err]
          ELSE IF r.dv._data = "raw" /\ r.dv.rawdata.type = "bytes"
          THEN [dv |-> r.dv, files |-> fs,
                err |-> "TypeError: bytes does not support item assignment"]
          ELSE IF k < 0 \/ k >= n
          THEN [dv |-> r.dv, files |-> fs, err |-> "IndexError"]
          ELSE IF r.dv._data = "mm"
          THEN [dv |-> r.dv,
                files |-> [fs EXCEPT ![r.dv.filename] = [@ EXCEPT ![k + 1] = value]],
                err |-> "ok"]
          ELSE [dv |-> [r.dv EXCEPT !.rawdata.val = [@ EXCEPT ![k + 1] = value]],
                files |-> fs, err |-> "ok"]

\* DataView.__getitem__ with the slice lo:hi.
DataView_getitem(dv, fs, lo, hi) ==
    LET r == DataView_data(dv, fs)
    IN  IF r.err # "ok" THEN [dv |-> r.dv, err |-> r.err, val |-> <<>>]
        ELSE [dv |-> r.dv, err |-> "ok", val |-> Slice(Content(r.dv, fs), lo, hi)]

\* DataView.__len__
DataView_len(dv, fs) ==
    LET r == DataView_data(dv, fs)
    IN  IF r.err # "ok" THEN [dv |-> r.dv, err |-> r.err, val |-> 0]
        ELSE [dv |-> r.dv, err |-> "ok", val |-> Len(Content(r.dv, fs))]

\* -------------------------------------------------------------- QHexEditor

\* Net pixel height of one row (font metrics height + 4) in this environment.
RowHeight == 2

\* ClampOffs with the page size left out of the upper limit.
ClampOffs_NoPage(offs, size, perpage) == Max(0, Min(offs, size))

\* The clamp of jump(): the window's first byte.
ClampOffs(offs, size, perpage) == Max(0, Min(offs, size - perpage))

\* A model cell without an item (setItem(row, col, None)).
NoItem == [present |-> FALSE, text |-> <<>>, fg |-> "", bg |-> ""]

brushes == <<"#800", "#008">>

\* CellPopulated off by one: the last byte read gets no items.
CellPopulated_OffByOne(idx, n) == idx < n - 1

\* The test of jump() that decides whether cell idx of the window gets items.
CellPopulated(idx, n) == idx < n

\* The hex item of byte c in column col: '%02X' % c.
HexItem(c, col) ==
    [present |-> TRUE, text |-> FmtX(c, 2), fg |-> brushes[(col % 2) + 1], bg |-> "default"]

\* The text item of byte c: one cp437 character, a space for a NONPRINTABLE code.
TextItem(c, col) ==
    [present |-> TRUE, text |-> <<Cp437[(IF c \in NONPRINTABLE THEN 32 ELSE c) + 1]>>,
     fg |-> brushes[(col % 2) + 1], bg |-> "default"]

\* The cells of the rows x 2*columns grid, as (row, column).
Grid(rows, columns) == (0..(rows - 1)) \X (0..(2 * columns - 1))

\* The item model after the double loop of jump() over the window `data`.
Frame(data, rows, columns) ==
    [p \in Grid(rows, columns) |->
        LET col == IF p[2] < columns THEN p[2] ELSE p[2] - columns
            idx == p[1] * columns + col
        IN  IF CellPopulated(idx, Len(data))
            THEN IF p[2] < columns THEN HexItem(data[idx + 1], col)
                 ELSE TextItem(data[idx + 1], col)
            ELSE NoItem]

\* addrlabels: '%08X' % i for i in range(offs, offs + perpage, columns).
AddrLabels(offs, perpage, columns) ==
    LET n == IF perpage <= 0 THEN 0 ELSE ((perpage - 1) \div columns) + 1
    IN  [k \in 1..n |-> FmtX(offs + (k - 1) * columns, 8)]

\* The horizontal labels: str(x) for each column, then an empty label per column.
ColLabels(columns) ==
    [k \in 1..(2 * columns) |-> IF k <= columns THEN DecStr(k - 1) ELSE <<>>]

\* QHexEditor.jump
jump(h, fs, offs) ==
    LET o == ClampOffs(offs, h.size, h.perpage)
        g == DataView_getitem(h._data, fs, o, o + h.perpage)
        h1 == [h EXCEPT !.offs = o, !._data = g.dv]
    IN  IF g.err # "ok" THEN [he |-> h1, files |-> fs, err |-> g.err]
        ELSE [he |-> [h1 EXCEPT !.vlabels = AddrLabels(o, h.perpage, h.columns),
                                !.hlabels = ColLabels(h.columns),
                                !.dm = Frame(g.val, h.rows, h.columns)],
              files |-> fs, err |-> "ok"]

\* RowOffset without the multiplication: the row id taken as a byte offset.
RowOffset_Unscaled(row, columns) == row

\* The offset jump_to_row asks jump() for.
RowOffset(row, columns) == row * columns

\* QHexEditor.jump_to_row
jump_to_row(h, fs, row) == jump(h, fs, RowOffset(row, h.columns))

\* QHexEditor.jump_rows
jump_rows(h, fs, rows) == jump(h, fs, h.offs - rows * h.columns)

\* QHexEditor.jump_pages
jump_pages(h, fs, pages) == jump(h, fs, h.offs - pages * h.perpage)

\* setRowCount(rows) on the item model: rows are cut or added without items.
SetRowCount(dm, rows, columns) ==
    [p \in Grid(rows, columns) |-> IF p \in DOMAIN dm THEN dm[p] ELSE NoItem]

\* QHexEditor.resizeEvent; height is hexview.height() - header height - 6.
resizeEvent(h, fs, height) ==
    LET r == height \div h.row_height
        h1 == [h EXCEPT !.rows = r, !.perpage = h.columns * r,
                        !.dm = SetRowCount(h.dm, r, h.columns)]
    IN  jump(h1, fs, h1.offs)

\* The status label open() sets.
FilenameLabel(filename, size) ==
    IF TruthyName(filename) THEN <<"File: <b>", filename, "</b>">>
    ELSE <<"Raw data (">> \o DecStr(size) \o <<" bytes)">>

\* scroll.setRange(0, maximum): a value above the new maximum is lowered to it
\* and valueChanged runs the connected slot, jump_to_row.  An exception of a
\* slot is reported by the binding and does not reach the caller of setRange.
SetRange(h, fs, maximum) ==
    LET h1 == [h EXCEPT !.scroll_max = maximum]
    IN  IF h.scroll_value > maximum
        THEN jump_to_row([h1 EXCEPT !.scroll_value = maximum], fs, maximum).he
        ELSE h1

\* QHexEditor.open
open(h, fs, d, filename, readonly) ==
    LET h0 == [h EXCEPT !.offs = 0]
        c  == IF h._data.none THEN [dv |-> h._data, err |-> "ok"]
              ELSE DataView_close(h._data)
        h1 == [h0 EXCEPT !._data = c.dv]
        dv == DataView_init(d, filename, readonly)
        n  == DataView_len(dv, fs)
        h2 == [h1 EXCEPT !._data = n.dv]
        h3 == SetRange([h2 EXCEPT !.size = n.val], fs, n.val \div h.columns)
    IN  IF c.err # "ok" THEN [he |-> h1, files |-> fs, err |-> c.err]
        ELSE IF DataView_init_raises(d, filename)
        THEN [he |-> h1, files |-> fs,
              err |-> "ValueError: Raw data or a filename must be provided!"]
        ELSE IF n.err # "ok" THEN [he |-> h2, files |-> fs, err |-> n.err]
        ELSE [he |-> IF h.statusbar
                     THEN [h3 EXCEPT !.status_filename = FilenameLabel(filename, n.val)]
                     ELSE h3,
              files |-> fs, err |-> "ok"]

\* SelKey folding both panes onto the hex pane's column.
SelKey_Folded(e, columns) == <<e[1], e[2] % columns>>

\* The key sel_changed computes for a selected index (row, column).
SelKey(e, columns) == <<e[1], (e[2] + columns) % (2 * columns)>>

InSeq(x, s) == \E i \in 1..Len(s) : s[i] = x

RECURSIVE Paint(_, _, _, _, _)
\* One loop of sel_changed from position i on: every key not in `skip` gets the
\* background `colour`; dm.item() of a cell without an item is None, and
\* None.setBackground raises, leaving the cells already painted as they are.
Paint(dm, keys, skip, colour, i) ==
    IF i > Len(keys) THEN [dm |-> dm, err |-> "ok"]
    ELSE IF InSeq(keys[i], skip) THEN Paint(dm, keys, skip, colour, i + 1)
    ELSE IF keys[i] \notin DOMAIN dm \/ ~dm[keys[i]].present
    THEN [dm |-> dm, err |-> "AttributeError: NoneType has no setBackground"]
    ELSE Paint([dm EXCEPT ![keys[i]].bg = colour], keys, skip, colour, i + 1)

\* The offset sel_changed writes to the status bar for the current index.
StatusOffs(h, cur) == h.offs + cur[1] * h.columns + cur[2]

\* The status text '<b>0x%X</b> (%d)' % (offs, offs).
OffsetLabel(offs) == [set |-> TRUE, hex |-> FmtX(offs, 1), dec |-> offs]

\* QHexEditor.sel_changed; new and old are the index lists of the two
\* selections, cur the view's current index.
sel_changed(h, fs, new, old, cur) ==
    LET kn == [i \in 1..Len(new) |-> SelKey(new[i], h.columns)]
        ko == [i \in 1..Len(old) |-> SelKey(old[i], h.columns)]
        p1 == Paint(h.dm, ko, kn, "#FFFFFF", 1)
        p2 == Paint(p1.dm, kn, ko, "#DDDD55", 1)
    IN  IF p1.err # "ok"
        THEN [he |-> [h EXCEPT !.dm = p1.dm], files |-> fs, err |-> p1.err, kn |-> kn, ko |-> ko]
        ELSE IF p2.err # "ok"
        THEN [he |-> [h EXCEPT !.dm = p2.dm], files |-> fs, err |-> p2.err, kn |-> kn, ko |-> ko]
        ELSE [he |-> IF h.statusbar
                     THEN [h EXCEPT !.dm = p2.dm,
                                    !.status_offset = OffsetLabel(StatusOffs(h, cur))]
                     ELSE [h EXCEPT !.dm = p2.dm],
              files |-> fs, err |-> "ok", kn |-> kn, ko |-> ko]

\* ------------------------------------------------------------ construction

\* The fields QHexEditor.__init__ sets before it calls open(): one row, a
\* rows x columns item model without items, a scroll bar at 0 in Qt's default
\* range, the status labels at '-'.
NewEditor(columns, statusbar) ==
    [columns |-> columns, rows |-> 1, perpage |-> columns, row_height |-> RowHeight,
     offs |-> 0, size |-> 0, _data |-> NoneView, statusbar |-> statusbar,
     status_filename |-> <<"-">>,
     status_offset |-> [set |-> FALSE, hex |-> <<>>, dec |-> 0],
     scroll_max |-> 99, scroll_value |-> 0,
     dm |-> [p \in (0..0) \X (0..(columns - 1)) |-> NoItem],
     vlabels |-> <<>>, hlabels |-> <<>>]

\* QHexEditor.__init__ from its open() call on: open(data, filename, readonly),
\* then jump().  An exception of either leaves no editor.  (The Esc shortcut
\* names sys.exit, which is in scope when the module runs as a script.)
Construct(d, filename, readonly, statusbar, columns) ==
    LET o == open(NewEditor(columns, statusbar), InitFiles, d, filename, readonly)
    IN  IF o.err # "ok" THEN o ELSE jump(o.he, o.files, 0)

\* ------------------------------------------------------------------ inputs

\* The in-memory buffers handed to open(): 0..MaxLen bytes, each 'A'; a
\* writable bytearray takes other contents through __setitem__.
Buffers == {[i \in 1..n |-> 65] : n \in 0..MaxLen}

DataInputs == {[type |-> t, val |-> b] : t \in {"bytes", "bytearray"}, b \in Buffers}

\* The (data, filename) pairs open() is called with: a buffer, a file name, or neither.
OpenArgs == {<<d, "None">> : d \in DataInputs \cup {NoneData}}
            \cup {<<NoneData, f>> : f \in FileNames}

\* The pairs the window exploration opens: the buffers and the five-byte file.
WindowOpenArgs == {a \in OpenArgs : a[1] # NoneData \/ a[2] = "a.bin"}

RECURSIVE CellLists(_, _)
\* Lists of at most n cells.
CellLists(cells, n) ==
    IF n = 0 THEN {<<>>}
    ELSE LET shorter == CellLists(cells, n - 1)
         IN  shorter \cup {Append(l, c) : l \in {x \in shorter : Len(x) = n - 1},
                                          c \in cells}

Distinct(l) == \A i, j \in 1..Len(l) : i # j => l[i] # l[j]

\* The index lists of a selection change: distinct cells of the current grid.
SelLists == {l \in CellLists(Grid(he.rows, he.columns), MaxSel) : Distinct(l)}

InvalidIndex == <<0 - 1, 0 - 1>>

Keys == {"PageUp", "PageDown", "Up", "Down", "Other"}

\* ----------------------------------------------------------------- actions

\* The editors QHexEditor(data, filename, readonly, statusbar, columns) builds.
InitWith(args, readonlys, statusbars) ==
    \E a \in args, readonly \in readonlys, statusbar \in statusbars, columns \in 1..MaxColumns :
        LET c == Construct(a[1], a[2], readonly, statusbar, columns)
        IN  /\ c.err = "ok"
            /\ he = c.he
            /\ files = c.files
            /\ current = InvalidIndex
            /\ lastOp = [op |-> "__init__"]
            /\ err = "ok"

Do(out, op) ==
    /\ he' = out.he
    /\ files' = out.files
    /\ err' = out.err
    /\ lastOp' = op

OpenWith(args) ==
    \E a \in args, readonly \in BOOLEAN :
        /\ Do(open(he, files, a[1], a[2], readonly),
              [op |-> "open", data |-> a[1], filename |-> a[2], readonly |-> readonly])
        /\ UNCHANGED current

\* jump() reads the current index first and sets it again last, which leaves
\* it as it was; a selection change that setCurrentIndex reports is a
\* SelChanged step of its own.
Jump ==
    \E x \in (0 - 1)..(he.size + 1) :
        /\ Do(jump(he, files, x), [op |-> "jump", offs |-> x])
        /\ UNCHANGED current

JumpRows ==
    \E d \in (0 - MaxDelta)..MaxDelta :
        /\ Do(jump_rows(he, files, d), [op |-> "jump_rows", rows |-> d])
        /\ UNCHANGED current

JumpPages ==
    \E d \in (0 - MaxDelta)..MaxDelta :
        /\ Do(jump_pages(he, files, d), [op |-> "jump_pages", pages |-> d])
        /\ UNCHANGED current

JumpToRow ==
    \E r \in (0 - 1)..((he.size \div he.columns) + 1) :
        /\ Do(jump_to_row(he, files, r), [op |-> "jump_to_row", row |-> r])
        /\ UNCHANGED current

\* The user moves the scroll bar: valueChanged(v) runs jump_to_row(v).
ScrollValueChanged ==
    \E v \in 0..he.scroll_max :
        /\ v # he.scroll_value
        /\ Do(jump_to_row([he EXCEPT !.scroll_value = v], files, v),
              [op |-> "scroll", row |-> v])
        /\ UNCHANGED current

\* QHexEditor.wheelEvent
WheelEvent ==
    \E up \in BOOLEAN :
        /\ Do(jump_rows(he, files, IF up THEN 1 ELSE 0 - 1), [op |-> "wheelEvent", up |-> up])
        /\ UNCHANGED current

\* QHexEditor.keyPressEvent
KeyPressEvent ==
    \E key \in Keys :
        /\ Do(IF key \in {"PageUp", "PageDown"}
              THEN jump_pages(he, files, IF key = "PageUp" THEN 1 ELSE 0 - 1)
              ELSE IF key \in {"Up", "Down"}
              THEN jump_rows(he, files, IF key = "Up" THEN 1 ELSE 0 - 1)
              ELSE [he |-> he, files |-> files, err |-> "ok"],
              [op |-> "keyPressEvent", key |-> key])
        /\ UNCHANGED current

\* The current index after the item model's row count becomes `rows`: Qt moves a
\* current index on a removed row to the last row left, or invalidates it.
CurrentAfterRows(cur, rows) ==
    IF cur = InvalidIndex \/ cur[1] < rows THEN cur
    ELSE IF rows > 0 THEN <<rows - 1, cur[2]>>
    ELSE InvalidIndex

ResizeWith(heights) ==
    \E height \in heights :
        /\ Do(resizeEvent(he, files, height), [op |-> "resizeEvent", height |-> height])
        /\ current' = CurrentAfterRows(current, height \div he.row_height)

\* The selection model reports a selection change.
SelChanged ==
    \E new \in SelLists, old \in SelLists :
        LET r == sel_changed(he, files, new, old, current)
        IN  /\ Do(r, [op |-> "sel_changed", new |-> new, old |-> old,
                      kn |-> r.kn, ko |-> r.ko])
            /\ UNCHANGED current

\* The user moves the focus to another cell of the grid.
CurrentChanged ==
    \E c \in Grid(he.rows, he.columns) :
        /\ c # current
        /\ current' = c
        /\ lastOp' = [op |-> "currentChanged", index |-> c]
        /\ err' = "ok"
        /\ UNCHANGED <<he, files>>

\* editor._data[item] = value
Setitem ==
    \E item \in (0 - 1)..MaxLen, value \in ByteVals :
        LET r == DataView_setitem(he._data, files, item, value)
        IN  /\ Do([he |-> [he EXCEPT !._data = r.dv], files |-> r.files, err |-> r.err],
                  [op |-> "setitem", item |-> item, value |-> value])
            /\ UNCHANGED current

\* editor._data[item:item + 1]
Getitem ==
    \E item \in 0..MaxLen :
        LET r == DataView_getitem(he._data, files, item, item + 1)
        IN  /\ Do([he |-> [he EXCEPT !._data = r.dv], files |-> files, err |-> r.err],
                  [op |-> "getitem", item |-> item, val |-> r.val])
            /\ UNCHANGED current

\* editor._data.close()
Close ==
    LET r == DataView_close(he._data)
    IN  /\ Do([he |-> [he EXCEPT !._data = r.dv], files |-> files, err |-> r.err],
              [op |-> "close"])
        /\ UNCHANGED current

\* ---------------------------------------------------------- specifications

\* The window: every navigation entry point, resizing, and opening another source.
Init == InitWith(OpenArgs, BOOLEAN, {TRUE})

OpenWindow == OpenWith(WindowOpenArgs)

ResizeEvent == ResizeWith(0..MaxHeight)

Next ==
    \/ OpenWindow
    \/ Jump
    \/ JumpRows
    \/ JumpPages
    \/ JumpToRow
    \/ ScrollValueChanged
    \/ WheelEvent
    \/ KeyPressEvent
    \/ ResizeEvent

Spec == Init /\ [][Next]_vars

\* The data source: open, item writes and reads, close, and a jump that reads
\* the window through the source.
InitData == InitWith(OpenArgs, BOOLEAN, {TRUE})

Open == OpenWith(OpenArgs)

NextData ==
    \/ Open
    \/ Setitem
    \/ Getitem
    \/ Close
    \/ Jump

SpecData == InitData /\ [][NextData]_vars

\* The selection: selection changes and focus moves over a window that is
\* scrolled and resized, with and without a status bar.
SelOpenArgs == {a \in OpenArgs : a[1].type = "bytes"}

InitSel == InitWith(SelOpenArgs, {TRUE}, BOOLEAN)

ResizeSel ==
    ResizeWith({h \in 0..MaxHeight : (h \div he.row_height) * he.columns <= MaxSelPage})

NextSel ==
    \/ SelChanged
    \/ CurrentChanged
    \/ WheelEvent
    \/ ResizeSel

SpecSel == InitSel /\ [][NextSel]_vars

\* ------------------------------------------------------------ properties

\* The largest valid window offset: max(0, length - page_size).
TopOffset == IF he.size - he.perpage > 0 THEN he.size - he.perpage ELSE 0

\* A frame was built by the last operation: a navigation or a resize that
\* raised nothing.
FrameBuilt ==
    /\ err = "ok"
    /\ \/ lastOp.op \in {"jump", "jump_rows", "jump_pages", "jump_to_row", "scroll",
                         "wheelEvent", "resizeEvent"}
       \/ lastOp.op = "keyPressEvent" /\ lastOp.key # "Other"

\* C1: after every operation (open, resize, jump, jump_rows, jump_pages,
\* jump_to_row, scroll, wheel, key) the window offset satisfies
\* 0 <= offs <= max(0, size - perpage), and jump(x) with x already in that
\* range leaves offs equal to x.
C1_OffsetInRange ==
    /\ 0 <= he.offs
    /\ he.offs <= TopOffset
    /\ (lastOp.op = "jump" /\ 0 <= lastOp.offs /\ lastOp.offs <= TopOffset)
          => he.offs = lastOp.offs

\* A jump beyond the last page of a source longer than a page was clamped to
\* the last page.
C1_Witness ==
    /\ lastOp.op = "jump"
    /\ he.rows >= 1
    /\ lastOp.offs > TopOffset
    /\ he.offs = TopOffset
    /\ he.offs > 0

\* C4 (as claimed): after jump_to_row(row) with row >= 0 and rows >= 1 the
\* offset is a multiple of columns.
C4_RowJumpAligned ==
    (lastOp.op \in {"jump_to_row", "scroll"} /\ lastOp.row >= 0 /\ he.rows >= 1)
        => he.offs % he.columns = 0

\* C4 (amended): after jump_to_row(row) with row >= 0 and rows >= 1 the offset
\* is row * columns, a multiple of columns, when that is at most
\* max(0, size - perpage), and max(0, size - perpage) itself otherwise.
C4_RowJumpClamped ==
    (lastOp.op \in {"jump_to_row", "scroll"} /\ lastOp.row >= 0 /\ he.rows >= 1)
        => IF lastOp.row * he.columns <= TopOffset
           THEN he.offs = lastOp.row * he.columns /\ he.offs % he.columns = 0
           ELSE he.offs = TopOffset

\* A jump to a row below the first one, in a window of two columns or more,
\* landed on that row's first byte.
C4_Witness ==
    /\ lastOp.op = "jump_to_row"
    /\ he.rows >= 1
    /\ he.columns > 1
    /\ lastOp.row > 0
    /\ he.offs = lastOp.row * he.columns

\* The value of a hex digit character, and of a two-digit hex text.
HexDigitValue(ch) == CHOOSE v \in 0..15 : HexDigits[v + 1] = ch
HexValue(text) == 16 * HexDigitValue(text[1]) + HexDigitValue(text[2])

\* The code point the text pane shows for byte b.
Glyph(b) == IF b \in NONPRINTABLE THEN 32 ELSE Cp437[b + 1]

\* C8: in the frame built by a navigation, for every row and column of the
\* window the hex cell and the text cell are populated iff
\* offs + row * columns + col < length, a populated cell shows the byte at that
\* index of the source, and every other cell holds no item.
C8_FramePopulated ==
    FrameBuilt =>
        LET src == Content(he._data, files)
        IN  /\ DOMAIN he.dm = Grid(he.rows, he.columns)
            /\ \A r \in 0..(he.rows - 1), c \in 0..(he.columns - 1) :
                 LET idx == he.offs + r * he.columns + c
                     h == he.dm[<<r, c>>]
                     t == he.dm[<<r, c + he.columns>>]
                 IN  IF idx < Len(src)
                     THEN /\ h.present /\ t.present
                          /\ Len(h.text) = 2 /\ HexValue(h.text) = src[idx + 1]
                          /\ t.text = <<Glyph(src[idx + 1])>>
                     ELSE h = NoItem /\ t = NoItem

\* A frame of two rows or more that ends past the end of the data: some cells
\* populated, some empty.
C8_Witness ==
    /\ FrameBuilt
    /\ he.rows >= 2
    /\ \E p \in DOMAIN he.dm : he.dm[p].present
    /\ \E p \in DOMAIN he.dm : ~he.dm[p].present

\* C2 (as claimed): on a source opened writable, a write of value v at an index
\* 0 <= i < length succeeds and a read of [i, i + 1) then returns [v].
C2_WriteReadBack ==
    (lastOp.op = "setitem" /\ ~he._data.readonly
        /\ 0 <= lastOp.item /\ lastOp.item < he.size)
        => /\ err = "ok"
           /\ Slice(Content(he._data, files), lastOp.item, lastOp.item + 1)
                 = <<lastOp.value>>

\* C5 (as claimed): open() with a data buffer present, of any length, does not
\* fail with the error for absent arguments.
C5_OpenDataAccepted ==
    (lastOp.op = "open" /\ lastOp.data.type # "NoneType")
        => err # "ValueError: Raw data or a filename must be provided!"

\* C6 (as claimed): close() raises no error, whatever the backing kind and
\* whether the source was read or closed before.
C6_CloseNeverRaises ==
    lastOp.op = "close" => err = "ok"

\* C9: on a read-only source every item write fails with the read-only error
\* and changes neither the editor, its source's bytes and length, nor the files.
C9_ReadOnlyRefused ==
    [][(lastOp'.op = "setitem" /\ he._data.readonly)
          => (/\ err' = "ValueError: Readonly flag set!"
              /\ he' = he
              /\ files' = files)]_vars

\* A write inside a read-only source was refused.
C9_Witness ==
    /\ lastOp.op = "setitem"
    /\ he._data.readonly
    /\ he._data._data # "None"
    /\ 0 <= lastOp.item /\ lastOp.item < he.size
    /\ lastOp.value # Content(he._data, files)[lastOp.item + 1]
    /\ err = "ValueError: Readonly flag set!"

\* The (index, key) pairs of the last selection change.
SelPairs ==
    {<<lastOp.new[i], lastOp.kn[i]>> : i \in 1..Len(lastOp.new)}
        \cup {<<lastOp.old[i], lastOp.ko[i]>> : i \in 1..Len(lastOp.old)}

\* e1 is a hex-pane cell and e2 the text-pane cell of the same byte.
SameByte(e1, e2) ==
    e1[1] = e2[1] /\ e1[2] < he.columns /\ e2[2] = e1[2] + he.columns

\* C3 (as claimed): the key computed for hex-pane cell (r, c) equals the key
\* computed for text-pane cell (r, c + columns).
C3_SameKeyBothPanes ==
    lastOp.op = "sel_changed" =>
        \A p, q \in SelPairs : SameByte(p[1], q[1]) => p[2] = q[2]

\* C3 (amended): the key computed for a cell is the cell of the same byte in
\* the other pane: (r, c + columns) for hex-pane cell (r, c) and (r, c) for
\* text-pane cell (r, c + columns); the keys of the two cells of one byte are
\* each other's cells.
C3_KeyIsTwinCell ==
    lastOp.op = "sel_changed" =>
        /\ \A p \in SelPairs :
             /\ p[2][1] = p[1][1]
             /\ p[1][2] < he.columns => p[2][2] = p[1][2] + he.columns
             /\ p[1][2] >= he.columns => p[2][2] = p[1][2] - he.columns
        /\ \A p, q \in SelPairs : SameByte(p[1], q[1]) => p[2] = q[1] /\ q[2] = p[1]

\* A selection change that holds the hex cell and the text cell of one byte,
\* in a row below the first.
C3_Witness ==
    /\ lastOp.op = "sel_changed"
    /\ \E p, q \in SelPairs : SameByte(p[1], q[1]) /\ p[1][1] > 0

\* C7 (as claimed): the status offset written for a valid current index
\* (row, col) is offs + row * columns + the column within the cell's own pane.
C7_StatusOffsetInPane ==
    (lastOp.op = "sel_changed" /\ err = "ok" /\ he.statusbar /\ current # InvalidIndex)
        => he.status_offset.dec =
              he.offs + current[1] * he.columns
                  + (IF current[2] < he.columns THEN current[2]
                     ELSE current[2] - he.columns)

\* C10 (as claimed): a selection change over cells of the grid raises nothing,
\* also for cells past the end of the data.
C10_SelChangedNeverRaises ==
    lastOp.op = "sel_changed" => err = "ok"

====
